---- MODULE Spec2Model ----
(***************************************************************************)
(* trackthenews/core.py: the ingestion - dedup - match - notify pipeline.  *)
(* Strings (URLs, plaintext, words) are sequences of one-character        *)
(* strings; the articles table is the sequence of its rows in rowid order. *)
(***************************************************************************)
EXTENDS Integers, Sequences, FiniteSets, TLC

\* ------------------------------------------------------------------ bounds
MaxUrlLen == 3      \* longest URL the canonicalizer is applied to
MaxTextLen == 3     \* longest plaintext the match evaluator is applied to
MaxEntries == 2     \* entries one retrieval of a feed yields at most
MaxTime == 6        \* clock ticks the runs span
MaxFail == 1        \* notification calls that raise, over all runs
MaxWordLen == 3     \* longest root word the matchword compiler is applied to
MaxKill == 1        \* terminations of a running process from outside
MaxGrafs == 5       \* matching paragraphs of an article that is notified
MaxFeeds == 3       \* feeds of an rssfeeds.json that is chunked on its own
MaxJobs == 3        \* num_jobs of that chunking

\* ------------------------------------------------- python values and strings
None == 0           \* just_tweeted_id = None, a NULL tweet_id column
TEST_ID == 1337     \* the placeholder tweet() returns under TEST_MODE

Range(s) == {s[i] : i \in 1..Len(s)}

\* every string over alphabet A of length at most n
Strings(A, n) == UNION {[1..k -> A] : k \in 0..n}

\* python: p in s
IsSubstr(p, s) ==
    \E i \in 0..(Len(s) - Len(p)) : SubSeq(s, i + 1, i + Len(p)) = p

LowerChar(c) ==
    CASE c = "X" -> "x"
      [] c = "K" -> "k"
      [] c = "F" -> "f"
      [] c = "U" -> "u"
      [] OTHER -> c

\* python: s.lower()
Lower(s) == [i \in 1..Len(s) |-> LowerChar(s[i])]

\* index of the first occurrence of character c in s, 0 when there is none
FirstIndex(s, c) ==
    IF c \in Range(s) THEN CHOOSE i \in 1..Len(s) : s[i] = c /\ \A j \in 1..(i - 1) : s[j] # c
    ELSE 0

RECURSIVE Split(_, _)
\* python: s.split(c), the list of the pieces between occurrences of c
Split(s, c) ==
    LET i == FirstIndex(s, c)
    IN  IF i = 0 THEN <<s>>
        ELSE <<SubSeq(s, 1, i - 1)>> \o Split(SubSeq(s, i + 1, Len(s)), c)

\* ------------------------------------------------------- URL canonicalizer
decruft_url_query_only(url) == Split(url, "?")[1]

\* index of the last occurrence of character c in s, 0 when there is none
LastIndex(s, c) ==
    IF c \in Range(s) THEN CHOOSE i \in 1..Len(s) : s[i] = c /\ \A j \in (i + 1)..Len(s) : s[j] # c
    ELSE 0

\* python: s.rsplit(c, 1)[0]
RSplitHead(s, c) == IF LastIndex(s, c) = 0 THEN s ELSE SubSeq(s, 1, LastIndex(s, c) - 1)

decruft_url_rsplit(url) == RSplitHead(RSplitHead(url, "?"), "#")

decruft_url(url) == Split(Split(url, "?")[1], "#")[1]

\* the URL adopted from a HEAD response: the location header when the final
\* response carries one (location is <<>> or <<u>>), else the response's url
ResolvedUrl(res) == IF res.location # <<>> THEN res.location[1] ELSE res.url

\* Article.canonicalize_url, given the response res of the HEAD request it
\* makes when redirects is set
canonicalize_url(url, delicate, redirects, res) ==
    LET working == IF redirects THEN ResolvedUrl(res) ELSE url
    IN  IF ~delicate THEN decruft_url(working) ELSE working

\* ------------------------------------------------------ matchword compiler
prefix == <<"(", "[", "\"", "'", " ">>
suffix_ascii == <<")", "]", ";", ",", ".", ":", "-", "\"", "'", " ">>

\* "ndash" stands for the one character u'–'
suffix == <<")", "]", ";", ",", ".", ":", "-", "ndash", "\"", "'", " ">>

\* list(itertools.product(prefix, suffix)): the pairs, the suffix varying fastest
comb == [k \in 1..(Len(prefix) * Len(suffix)) |->
            <<prefix[((k - 1) \div Len(suffix)) + 1], suffix[((k - 1) % Len(suffix)) + 1]>>]

generate_matchwords(word) ==
    LET words == <<word, word \o <<"e">>, word \o <<"e", "n">>,
                   word \o <<"e", "s">>, word \o <<"s">> >>
    IN  [k \in 1..(Len(words) * Len(comb)) |->
            LET w == words[((k - 1) \div Len(comb)) + 1]
                c == comb[((k - 1) % Len(comb)) + 1]
            IN  <<c[1]>> \o w \o <<c[2]>>]

\* ------------------------------------------- configuration read by main()
ua == <<"u">>                                  \* config['user-agent']
matchwords == << <<"K">> >>                    \* matchlist.txt
blocklist_words == << <<"X">> >>               \* blocklist.txt
matchwords_case_sensitive_raw == << <<"F">> >> \* matchlist_case_sensitive.txt
matchwords_case_sensitive == generate_matchwords(matchwords_case_sensitive_raw[1])

\* ---------------------------------------------------------- match evaluator
GrafMatches_exact_case(graf) ==
    \/ \E i \in 1..Len(matchwords) : IsSubstr(matchwords[i], graf)
    \/ \E i \in 1..Len(matchwords_case_sensitive) : IsSubstr(matchwords_case_sensitive[i], graf)

\* a paragraph matches a case-insensitive word or a case-sensitive surface form
GrafMatches(graf) ==
    \/ \E i \in 1..Len(matchwords) : IsSubstr(Lower(matchwords[i]), Lower(graf))
    \/ \E i \in 1..Len(matchwords_case_sensitive) : IsSubstr(matchwords_case_sensitive[i], graf)

check_for_matches_no_ua(plaintext, blocked) ==
    IF \E i \in 1..Len(blocklist_words) :
           IsSubstr(Lower(blocklist_words[i]), Lower(plaintext)) THEN <<>>
    ELSE IF blocked THEN <<>>
    ELSE SelectSeq(Split(plaintext, "\n"), GrafMatches)

check_for_matches_no_blockwords(plaintext, blocked) ==
    IF IsSubstr(ua, plaintext) THEN <<>>
    ELSE IF blocked THEN <<>>
    ELSE SelectSeq(Split(plaintext, "\n"), GrafMatches)

\* Article.check_for_matches after clean(): the matching_grafs it leaves for
\* the plaintext; blocked is the value of blocklist_loaded and blocklist.check(self)
check_for_matches(plaintext, blocked) ==
    IF IsSubstr(ua, plaintext) THEN <<>>
    ELSE IF \E i \in 1..Len(blocklist_words) :
                IsSubstr(Lower(blocklist_words[i]), Lower(plaintext)) THEN <<>>
    ELSE IF blocked THEN <<>>
    ELSE SelectSeq(Split(plaintext, "\n"), GrafMatches)

\* ----------------------------------------------------------- the pipeline
Workers == {1, 2}   \* worker w runs main(w - 1, num_jobs)

WindowDays == 2     \* date('now','-2 day')
TicksPerDay == 2    \* clock ticks in a calendar day

\* rssfeeds.json; outlets are numbered in their sort order
rss_feeds == << [outlet |-> 1, delicate |-> FALSE, redirects |-> TRUE],
                [outlet |-> 2, delicate |-> FALSE, redirects |-> FALSE] >>

RawUrls == { <<"a", "?", "q">>, <<"b">> }       \* links feeds and redirects yield
Urls == RawUrls \cup {decruft_url(u) : u \in RawUrls}

\* the entries a retrieval of a feed draws from: the first outlet links one
\* article through redirects, the second links another under either title
Entries(outlet) ==
    IF outlet = 1 THEN { [title |-> "T1", link |-> <<"a", "?", "q">>] }
    ELSE { [title |-> "T1", link |-> <<"b">>], [title |-> "T2", link |-> <<"b">>] }

\* plaintext the extraction yields: no match, a match, two matching
\* paragraphs, a match beside a block word, a match beside the user agent
Texts == { <<"z">>, <<"k">>, <<"k", "\n", "K">>, <<"k", "x">>, <<"k", "u">> }

\* responses to the HEAD request of canonicalize_url; Fail stands for no
\* response (no request made, or an exception)
Responses == [location : {<<>>, << <<"b">> >>}, url : RawUrls]
Fail == [location |-> <<>>, url |-> <<>>]

VARIABLES
    db,              \* the articles table: its rows in rowid order
    now,             \* the clock, in ticks
    twitter,         \* the statuses posted
    TEST_MODE,
    num_jobs,
    pc,              \* per worker: where main() stands
    exc,             \* per worker: the exception that ended its last run
    feed_i,          \* per worker: index in its rss_feeds of the feed in hand
    deduped,         \* per worker: the feed's articles, first occurrences
    counter,         \* per worker: index in deduped of the article in hand
    article,         \* per worker: plaintext, matching_grafs and tweeted of that article
    in_reply_to,     \* per worker: in_reply_to_status_id for tweet(), or None
    just_tweeted_id, \* per worker
    invoked,         \* per URL: calls of Article.tweet made for it
    returned,        \* per URL: those calls that returned an id
    log,             \* per worker, for the feed in hand: the URLs looked up in the
                     \* table, fetched, failed in check_for_matches, rejected on insert
    call,            \* a function of the program applied on its own: its
                     \* arguments and results
    killed           \* the processes terminated from outside so far

vars == <<db, now, twitter, TEST_MODE, num_jobs, pc, exc, feed_i, deduped, counter,
          article, in_reply_to, just_tweeted_id, invoked, returned, log, call, killed>>

\* what no step of main() changes
config == <<TEST_MODE, num_jobs, call, killed>>

\* the state of the pipeline
pipeline == <<db, now, twitter, TEST_MODE, num_jobs, pc, exc, feed_i, deduped, counter,
              article, in_reply_to, just_tweeted_id, invoked, returned, log, killed>>

NoLog == [seen |-> {}, get |-> {}, failed |-> {}, rejected |-> {}]
NoArticle == [plaintext |-> <<>>, matching_grafs |-> <<>>, tweeted |-> FALSE]

\* chunk_list(a, n)[i]
chunk_list(a, n, i) ==
    LET k == Len(a) \div n
        m == Len(a) % n
        Min(x, y) == IF x < y THEN x ELSE y
    IN  SubSeq(a, i * k + Min(i, m) + 1, (i + 1) * k + Min(i + 1, m))

RECURSIVE SortedSeq(_)
\* sorted(S)
SortedSeq(S) ==
    IF S = {} THEN <<>>
    ELSE LET x == CHOOSE x \in S : \A y \in S : x <= y
         IN  <<x>> \o SortedSeq(S \ {x})

sorted_as_is(a) == a

\* sorted(a), for a list without repetitions
sorted(a) == SortedSeq(Range(a))

\* the rss_feeds main(job_index, jobs) keeps of the feeds of rssfeeds.json;
\* outlets is list(set(...)) of their outlets, in the order the set yields
select_feeds(feeds, outlets, job_index, jobs) ==
    LET outlets_chunk == IF jobs > 1
                         THEN Range(chunk_list(sorted(outlets), jobs, job_index))
                         ELSE Range(outlets)
        InChunk(feed) == feed.outlet \in outlets_chunk
    IN  SelectSeq(feeds, InChunk)

\* the rss_feeds main(job_index, jobs) keeps
ChunkFeeds(job_index, jobs) ==
    select_feeds(rss_feeds, SortedSeq({rss_feeds[i].outlet : i \in 1..Len(rss_feeds)}),
                 job_index, jobs)

\* ChunkFeeds, tabulated for the numbers of jobs the workers allow
FeedsTable ==
    [jobs \in 1..Cardinality(Workers) |-> [j \in 0..(jobs - 1) |-> ChunkFeeds(j, jobs)]]

FeedsOf(job_index) == FeedsTable[num_jobs][job_index]

Feed(w) == FeedsOf(w - 1)[feed_i[w]]
Current(w) == deduped[w][counter[w]]

\* select * from articles where url = ?
has_seen_never(table, url) == FALSE

has_seen(table, url) == \E i \in 1..Len(table) : table[i].url = url

\* recorded_at >= date('now','-2 day'): the stored timestamp against the
\* calendar date two days before today's
InWindow(recorded_at, t) == recorded_at \div TicksPerDay >= (t \div TicksPerDay) - WindowDays

\* select tweet_id from articles where title = ? and recorded_at >= date('now','-2 day')
same_title(table, title, t) ==
    LET Hit(row) == row.title = title /\ InWindow(row.recorded_at, t)
        rows == SelectSeq(table, Hit)
    IN  [i \in 1..Len(rows) |-> rows[i].tweet_id]

\* insert or replace into articles
insert_replace(table, row) ==
    IF \E i \in 1..Len(table) : table[i].url = row.url
    THEN [i \in 1..Len(table) |-> IF table[i].url = row.url THEN row ELSE table[i]]
    ELSE Append(table, row)

\* only the articles that were notified get a row
insert_only_notified(table, row) ==
    IF row.tweet_id = None \/ \E i \in 1..Len(table) : table[i].url = row.url THEN table
    ELSE Append(table, row)

insert_no_index(table, row) == Append(table, row)

insert_lost(table, row) == table

\* insert into articles under the unique index idx_articles_url: the table
\* after it, unchanged when the insert raises sqlite3.IntegrityError
insert(table, row) ==
    IF \E i \in 1..Len(table) : table[i].url = row.url THEN table
    ELSE Append(table, row)

RECURSIVE Dedupe(_, _)
\* the loop over articles filling deduped and deduped_urls
Dedupe(articles, deduped_urls) ==
    IF articles = <<>> THEN <<>>
    ELSE IF Head(articles).url \in deduped_urls THEN Dedupe(Tail(articles), deduped_urls)
    ELSE <<Head(articles)>> \o Dedupe(Tail(articles), deduped_urls \cup {Head(articles).url})

RECURSIVE SumOver(_, _)
SumOver(f, S) ==
    IF S = {} THEN 0
    ELSE LET x == CHOOSE x \in S : TRUE IN f[x] + SumOver(f, S \ {x})

\* calls of Article.tweet that raised, over all URLs
Raised == SumOver(invoked, Urls) - SumOver(returned, Urls)

InitCommon ==
    /\ db = <<>>
    /\ now = 0
    /\ twitter = <<>>
    /\ pc = [w \in Workers |-> "idle"]
    /\ exc = [w \in Workers |-> "none"]
    /\ feed_i = [w \in Workers |-> 1]
    /\ deduped = [w \in Workers |-> <<>>]
    /\ counter = [w \in Workers |-> 1]
    /\ article = [w \in Workers |-> NoArticle]
    /\ in_reply_to = [w \in Workers |-> None]
    /\ just_tweeted_id = [w \in Workers |-> None]
    /\ invoked = [u \in Urls |-> 0]
    /\ returned = [u \in Urls |-> 0]
    /\ log = [w \in Workers |-> NoLog]
    /\ killed = 0

NoCall == [op |-> "none"]

\* run(): main(0, 1), live or with TEST_MODE set
Init == InitCommon /\ TEST_MODE \in BOOLEAN /\ num_jobs = 1 /\ call = NoCall

\* Parallel(n_jobs=num_jobs)(delayed(main)(i, num_jobs) ...) with num_jobs = 2
InitConc == InitCommon /\ TEST_MODE \in BOOLEAN /\ num_jobs = 2 /\ call = NoCall

\* no process of the worker runs: none was started, the last one returned
\* from main(), left through sys.exit, was ended by an exception, or was
\* terminated from outside
Ended == {"idle", "done", "exited", "crashed", "killed"}

\* main() up to the loop over rss_feeds, in a fresh process
Run(w) ==
    /\ pc[w] \in Ended
    /\ FeedsOf(w - 1) # <<>>
    /\ pc' = [pc EXCEPT ![w] = "parse"]
    /\ exc' = [exc EXCEPT ![w] = "none"]
    /\ feed_i' = [feed_i EXCEPT ![w] = 1]
    /\ deduped' = [deduped EXCEPT ![w] = <<>>]
    /\ counter' = [counter EXCEPT ![w] = 1]
    /\ article' = [article EXCEPT ![w] = NoArticle]
    /\ in_reply_to' = [in_reply_to EXCEPT ![w] = None]
    /\ just_tweeted_id' = [just_tweeted_id EXCEPT ![w] = None]
    /\ log' = [log EXCEPT ![w] = NoLog]
    /\ UNCHANGED <<db, now, twitter, config, invoked, returned>>

\* parse_feed and the first-occurrence filter: every entry is made an
\* Article, whose constructor canonicalizes its URL
ParseFeed(w) ==
    /\ pc[w] = "parse"
    /\ \E feed \in {Feed(w)} : \E n \in 0..MaxEntries :
       \E entries \in [1..n -> Entries(feed.outlet)] :
       \E res \in [1..n -> IF feed.redirects THEN Responses ELSE {Fail}] :
         LET articles == [i \in 1..n |->
                 [outlet |-> feed.outlet, title |-> entries[i].title,
                  url |-> canonicalize_url(entries[i].link, feed.delicate,
                                           feed.redirects, res[i])]]
         IN  /\ deduped' = [deduped EXCEPT ![w] = Dedupe(articles, {})]
             /\ log' = [log EXCEPT ![w] = NoLog]
    /\ counter' = [counter EXCEPT ![w] = 1]
    /\ pc' = [pc EXCEPT ![w] = "loop"]
    /\ UNCHANGED <<db, now, twitter, config, exc, feed_i, article, in_reply_to,
                   just_tweeted_id, invoked, returned>>

\* requests.head raises in canonicalize_url for entry k: nothing catches it
ParseFeedRaises(w) ==
    /\ pc[w] = "parse"
    /\ Feed(w).redirects
    /\ log' = [log EXCEPT ![w] = NoLog]
    /\ pc' = [pc EXCEPT ![w] = "crashed"]
    /\ exc' = [exc EXCEPT ![w] = "ConnectionError"]
    /\ UNCHANGED <<db, now, twitter, config, feed_i, deduped, counter, article,
                   in_reply_to, just_tweeted_id, invoked, returned>>

\* the loop over deduped is exhausted: the next feed, or conn.close()
EndOfFeed(w) ==
    /\ pc[w] = "loop"
    /\ counter[w] > Len(deduped[w])
    /\ IF feed_i[w] < Len(FeedsOf(w - 1))
       THEN /\ feed_i' = [feed_i EXCEPT ![w] = @ + 1]
            /\ pc' = [pc EXCEPT ![w] = "parse"]
       ELSE /\ feed_i' = feed_i
            /\ pc' = [pc EXCEPT ![w] = "done"]
    /\ deduped' = [deduped EXCEPT ![w] = <<>>]
    /\ counter' = [counter EXCEPT ![w] = 1]
    /\ log' = [log EXCEPT ![w] = NoLog]
    /\ UNCHANGED <<db, now, twitter, config, exc, article, in_reply_to,
                   just_tweeted_id, invoked, returned>>

\* article_exists is not empty: continue
SkipSeen(w) ==
    /\ pc[w] = "loop"
    /\ counter[w] <= Len(deduped[w])
    /\ has_seen(db, Current(w).url)
    /\ counter' = [counter EXCEPT ![w] = @ + 1]
    /\ log' = [log EXCEPT ![w].seen = @ \cup {Current(w).url}]
    /\ UNCHANGED <<db, now, twitter, config, pc, exc, feed_i, deduped, article,
                   in_reply_to, just_tweeted_id, invoked, returned>>

\* article_exists is empty: the article goes on to check_for_matches
NotSeen(w) ==
    /\ pc[w] = "loop"
    /\ counter[w] <= Len(deduped[w])
    /\ ~has_seen(db, Current(w).url)
    /\ pc' = [pc EXCEPT ![w] = "check_for_matches"]
    /\ article' = [article EXCEPT ![w] = NoArticle]
    /\ log' = [log EXCEPT ![w].seen = @ \cup {Current(w).url}]
    /\ UNCHANGED <<db, now, twitter, config, exc, feed_i, deduped, counter,
                   in_reply_to, just_tweeted_id, invoked, returned>>

\* where main() goes after the try around check_for_matches
AfterCheck(grafs) == IF grafs # <<>> THEN "same_title" ELSE "insert"

\* article.check_for_matches() returns
CheckForMatches(w) ==
    /\ pc[w] = "check_for_matches"
    /\ \E plaintext \in Texts : \E blocked \in BOOLEAN :
         LET grafs == check_for_matches(plaintext, blocked)
         IN  /\ article' = [article EXCEPT ![w].plaintext = plaintext,
                                             ![w].matching_grafs = grafs]
             /\ pc' = [pc EXCEPT ![w] = AfterCheck(grafs)]
    /\ just_tweeted_id' = [just_tweeted_id EXCEPT ![w] = None]
    /\ in_reply_to' = [in_reply_to EXCEPT ![w] = None]
    /\ log' = [log EXCEPT ![w].get = @ \cup {Current(w).url}]
    /\ UNCHANGED <<db, now, twitter, config, exc, feed_i, deduped, counter,
                   invoked, returned>>

\* article.check_for_matches() raises (the fetch, the extraction): the bare
\* except passes, and main() goes on with the article
CheckForMatchesRaises(w) ==
    /\ pc[w] = "check_for_matches"
    /\ pc' = [pc EXCEPT ![w] = AfterCheck(article[w].matching_grafs)]
    /\ just_tweeted_id' = [just_tweeted_id EXCEPT ![w] = None]
    /\ in_reply_to' = [in_reply_to EXCEPT ![w] = None]
    /\ log' = [log EXCEPT ![w].get = @ \cup {Current(w).url},
                          ![w].failed = @ \cup {Current(w).url}]
    /\ UNCHANGED <<db, now, twitter, config, exc, feed_i, deduped, counter, article,
                   invoked, returned>>

\* the same_title query and int(tweet_id) of its last row
SameTitle(w) ==
    /\ pc[w] = "same_title"
    /\ LET rows == same_title(db, Current(w).title, now)
       IN  IF Len(rows) # 0
           THEN IF rows[Len(rows)] = None
                THEN /\ pc' = [pc EXCEPT ![w] = "crashed"]   \* int(None)
                     /\ exc' = [exc EXCEPT ![w] = "TypeError"]
                     /\ in_reply_to' = in_reply_to
                ELSE /\ pc' = [pc EXCEPT ![w] = "tweet"]
                     /\ exc' = exc
                     /\ in_reply_to' = [in_reply_to EXCEPT ![w] = rows[Len(rows)]]
           ELSE /\ pc' = [pc EXCEPT ![w] = "tweet"]
                /\ exc' = exc
                /\ in_reply_to' = [in_reply_to EXCEPT ![w] = None]
    /\ UNCHANGED <<db, now, twitter, config, feed_i, deduped, counter, article,
                   just_tweeted_id, invoked, returned, log>>

\* article.tweet(...) returns
Tweet(w) ==
    /\ pc[w] = "tweet"
    /\ LET url == Current(w).url
       IN  /\ invoked' = [invoked EXCEPT ![url] = @ + 1]
           /\ returned' = [returned EXCEPT ![url] = @ + 1]
           /\ IF TEST_MODE
              THEN /\ just_tweeted_id' = [just_tweeted_id EXCEPT ![w] = TEST_ID]
                   /\ UNCHANGED <<twitter, article>>
              ELSE /\ twitter' = Append(twitter,
                          [id |-> Len(twitter) + 1, url |-> url,
                           title |-> Current(w).title,
                           in_reply_to_status_id |-> in_reply_to[w]])
                   /\ just_tweeted_id' = [just_tweeted_id EXCEPT ![w] = Len(twitter) + 1]
                   /\ article' = [article EXCEPT ![w].tweeted = TRUE]
    /\ pc' = [pc EXCEPT ![w] = "insert"]
    /\ UNCHANGED <<db, now, config, exc, feed_i, deduped, counter, in_reply_to, log>>

\* article.tweet(...) raises (rendering, the Twitter API): nothing catches it
TweetRaises(w) ==
    /\ pc[w] = "tweet"
    /\ Raised < MaxFail
    /\ invoked' = [invoked EXCEPT ![Current(w).url] = @ + 1]
    /\ pc' = [pc EXCEPT ![w] = "crashed"]
    /\ exc' = [exc EXCEPT ![w] = "TwythonError"]
    /\ UNCHANGED <<db, now, twitter, config, feed_i, deduped, counter, article,
                   in_reply_to, just_tweeted_id, returned, log>>

\* the row main() inserts for the article in hand
Row(w) ==
    [title |-> Current(w).title, outlet |-> Current(w).outlet, url |-> Current(w).url,
     tweeted |-> article[w].tweeted, recorded_at |-> now,
     tweet_id |-> just_tweeted_id[w]]

\* insert into articles, commit; an IntegrityError is printed
Insert(w) ==
    /\ pc[w] = "insert"
    /\ db' = insert(db, Row(w))
    /\ log' = IF Len(db') = Len(db)
              THEN [log EXCEPT ![w].rejected = @ \cup {Current(w).url}]
              ELSE log
    /\ counter' = [counter EXCEPT ![w] = @ + 1]
    /\ pc' = [pc EXCEPT ![w] = "loop"]
    /\ article' = [article EXCEPT ![w] = NoArticle]           \* the next iteration
    /\ in_reply_to' = [in_reply_to EXCEPT ![w] = None]        \* has its own article
    /\ just_tweeted_id' = [just_tweeted_id EXCEPT ![w] = None] \* and locals
    /\ UNCHANGED <<now, twitter, config, exc, feed_i, deduped, invoked, returned>>

\* time passes between runs (a run is short against a tick)
Tick ==
    /\ now < MaxTime
    /\ db # <<>>
    /\ \A w \in Workers : pc[w] \in Ended
    /\ now' = now + 1
    /\ UNCHANGED <<db, twitter, config, pc, exc, feed_i, deduped, counter, article,
                   in_reply_to, just_tweeted_id, invoked, returned, log>>

\* the steps of a run that has started
Running(w) ==
    \/ ParseFeed(w)
    \/ ParseFeedRaises(w)
    \/ EndOfFeed(w)
    \/ SkipSeen(w)
    \/ NotSeen(w)
    \/ CheckForMatches(w)
    \/ CheckForMatchesRaises(w)
    \/ SameTitle(w)
    \/ Tweet(w)
    \/ TweetRaises(w)
    \/ Insert(w)

Step(w) == Run(w) \/ Running(w)

Next == Tick \/ Step(1)

Spec == Init /\ [][Next]_vars

\* the process is terminated from outside at any point of main(): what it
\* committed and what it posted stay, its memory is gone
Kill(w) ==
    /\ pc[w] \notin Ended
    /\ killed < MaxKill
    /\ killed' = killed + 1
    /\ pc' = [pc EXCEPT ![w] = "killed"]
    /\ feed_i' = [feed_i EXCEPT ![w] = 1]
    /\ deduped' = [deduped EXCEPT ![w] = <<>>]
    /\ counter' = [counter EXCEPT ![w] = 1]
    /\ article' = [article EXCEPT ![w] = NoArticle]
    /\ in_reply_to' = [in_reply_to EXCEPT ![w] = None]
    /\ just_tweeted_id' = [just_tweeted_id EXCEPT ![w] = None]
    /\ log' = [log EXCEPT ![w] = NoLog]
    /\ UNCHANGED <<db, now, twitter, TEST_MODE, num_jobs, call, exc, invoked, returned>>

\* run() started again and again, where a run may be terminated from outside
NextKill == Kill(1) \/ Step(1)

SpecKill == Init /\ [][NextKill]_vars

\* the configuration files main() may find: both matchword lists empty or
\* both as above; rssfeeds.json not JSON, an empty list, or the feeds above
Configurations ==
    [op : {"main"},
     lists : {[matchwords |-> <<>>, matchwords_case_sensitive_raw |-> <<>>],
              [matchwords |-> matchwords,
               matchwords_case_sensitive_raw |-> matchwords_case_sensitive_raw]},
     rssfeedsfile : {[json |-> FALSE, rss_feeds |-> <<>>],
                     [json |-> TRUE, rss_feeds |-> <<>>],
                     [json |-> TRUE, rss_feeds |-> rss_feeds]}]

InitConfig == InitCommon /\ TEST_MODE \in BOOLEAN /\ num_jobs = 1 /\ call \in Configurations

\* main() up to the loop over rss_feeds, on the configuration in call: the
\* exit for no matchwords, the exit for a feeds file json.load rejects
\* (JSONDecodeError is simplejson's; json.load raises it, or a ValueError
\* that the except clause lets through), else the loop, over no feed when
\* the list is empty
Main(w) ==
    /\ call.op = "main"
    /\ pc[w] = "idle"
    /\ IF call.lists.matchwords = <<>> /\ call.lists.matchwords_case_sensitive_raw = <<>>
       THEN /\ pc' = [pc EXCEPT ![w] = "exited"]
            /\ exc' = [exc EXCEPT ![w] = "SystemExit"]
       ELSE IF ~call.rssfeedsfile.json
       THEN \/ /\ pc' = [pc EXCEPT ![w] = "exited"]
               /\ exc' = [exc EXCEPT ![w] = "SystemExit"]
            \/ /\ pc' = [pc EXCEPT ![w] = "crashed"]
               /\ exc' = [exc EXCEPT ![w] = "ValueError"]
       ELSE IF call.rssfeedsfile.rss_feeds = <<>>
       THEN /\ pc' = [pc EXCEPT ![w] = "done"]       \* conn.close()
            /\ exc' = exc
       ELSE /\ pc' = [pc EXCEPT ![w] = "parse"]
            /\ exc' = exc
    /\ UNCHANGED <<db, now, twitter, config, feed_i, deduped, counter, article,
                   in_reply_to, just_tweeted_id, invoked, returned, log>>

\* one run of main() on any of the configurations
NextConfig == Main(1) \/ Running(1)

SpecConfig == InitConfig /\ [][NextConfig]_vars

\* one launch of two workers on one articles table, each on its chunk of the
\* outlets: a worker runs main() once, within one tick of the clock
Launch(w) == pc[w] = "idle" /\ Run(w)

NextConc == \E w \in Workers : Launch(w) \/ Running(w)

SpecConc == InitConc /\ [][NextConc]_vars

\* ------------------------------------- canonicalize_url applied on its own
UrlAlphabet == {"a", "?", "#"}
\* what a HEAD request for url may answer: a final response at v, or a
\* response that names v in a location header; the URLs v are short
HeadResponses(url) ==
    {[location |-> <<>>, url |-> v] : v \in Strings(UrlAlphabet, MaxUrlLen - 1)}
    \cup {[location |-> <<v>>, url |-> url] : v \in Strings(UrlAlphabet, MaxUrlLen - 1)}

InitCanon ==
    /\ InitCommon
    /\ TEST_MODE = FALSE
    /\ num_jobs = 1
    /\ call \in [op : {"canonicalize_url"}, url : Strings(UrlAlphabet, MaxUrlLen),
                 delicate : BOOLEAN, redirects : BOOLEAN, heads : {<<>>}, out : {<<>>}]

\* canonicalize_url applied to the URL, then to its own result, with the
\* flags fixed; the network answers the same URL the same way both times
Canonicalize ==
    /\ call.op = "canonicalize_url"
    /\ Len(call.out) < 2
    /\ LET u == IF call.out = <<>> THEN call.url ELSE call.out[Len(call.out)]
       IN  \E res \in IF call.redirects THEN HeadResponses(u) ELSE {Fail} :
             /\ \A i \in 1..Len(call.heads) : call.heads[i].url = u => call.heads[i].res = res
             /\ call' = [call EXCEPT
                   !.out = Append(@, canonicalize_url(u, call.delicate, call.redirects, res)),
                   !.heads = IF call.redirects THEN Append(@, [url |-> u, res |-> res]) ELSE @]
    /\ UNCHANGED pipeline

SpecCanon == InitCanon /\ [][Canonicalize]_vars

\* ------------------------------------ check_for_matches applied on its own
TextAlphabet == {"k", "K", "x", "X", "u", "F", " ", ".", "\n"}

InitMatch ==
    /\ InitCommon
    /\ TEST_MODE = FALSE
    /\ num_jobs = 1
    /\ call \in [op : {"check_for_matches"}, plaintext : Strings(TextAlphabet, MaxTextLen),
                 blocked : BOOLEAN, done : {FALSE}, matching_grafs : {<<>>}]

Evaluate ==
    /\ call.op = "check_for_matches"
    /\ ~call.done
    /\ call' = [call EXCEPT !.done = TRUE,
                            !.matching_grafs = check_for_matches(call.plaintext, call.blocked)]
    /\ UNCHANGED pipeline

SpecMatch == InitMatch /\ [][Evaluate]_vars

\* ---------------------------------- generate_matchwords applied on its own
WordAlphabet == {"F", "e", "n", "s", " "}
\* the lines of matchlist_case_sensitive.txt that main() keeps: not empty
RootWords == Strings(WordAlphabet, MaxWordLen) \ {<<>>}

InitWords ==
    /\ InitCommon
    /\ TEST_MODE = FALSE
    /\ num_jobs = 1
    /\ call \in [op : {"generate_matchwords"}, word : RootWords, done : {FALSE}, res : {<<>>}]

Generate ==
    /\ call.op = "generate_matchwords"
    /\ ~call.done
    /\ call' = [call EXCEPT !.done = TRUE, !.res = generate_matchwords(call.word)]
    /\ UNCHANGED pipeline

SpecWords == InitWords /\ [][Generate]_vars

\* ------------------------------- the images of Article.tweet, on their own
ImageLimit == 4     \* matching_grafs[:4], imgs[:4]

\* seq[:4]
first_four(seq) == SubSeq(seq, 1, IF Len(seq) < ImageLimit THEN Len(seq) ELSE ImageLimit)

\* "mdash" and "bullet" stand for the characters u'—' and u'•'
StripChars == {"#", ">", "mdash", "-", "bullet", " "}

RECURSIVE lstrip(_)
\* graf.lstrip('#>—-• ')
lstrip(graf) ==
    IF graf # <<>> /\ Head(graf) \in StripChars THEN lstrip(Tail(graf)) ELSE graf

\* render_img: the image, known by the text it shows and by whether its
\* width was chosen to make it square
render_img(graf, square) == [text |-> lstrip(graf), square |-> square]

Square_when_single(matching_grafs) == IF Len(matching_grafs) = 1 THEN TRUE ELSE FALSE

\* the square flag Article.tweet passes to render_img
Square(matching_grafs) == IF Len(matching_grafs) = 1 THEN FALSE ELSE TRUE

\* self.imgs after the rendering loop
imgs(matching_grafs) ==
    LET grafs == first_four(matching_grafs)
    IN  [i \in 1..Len(grafs) |-> render_img(grafs[i], Square(matching_grafs))]

\* media_ids after the upload loop, the id of an image standing for the
\* image; uploaded holds the positions whose upload_media call did not
\* raise TwythonError
media_ids(matching_grafs, uploaded) ==
    LET to_send == first_four(imgs(matching_grafs))
        sent == SelectSeq([i \in 1..Len(to_send) |-> [at |-> i, img |-> to_send[i]]],
                          LAMBDA e : e.at \in uploaded)
    IN  [i \in 1..Len(sent) |-> sent[i].img]

\* paragraphs an article may match with
Grafs == { <<"k">>, <<"#", " ", "K">> }
RECURSIVE SeqsUpTo(_, _)
SeqsUpTo(S, n) ==
    IF n = 0 THEN {<<>>}
    ELSE SeqsUpTo(S, n - 1) \cup {Append(q, x) : q \in {r \in SeqsUpTo(S, n - 1) : Len(r) = n - 1}, x \in S}

\* main() calls article.tweet only when article.matching_grafs is not empty
InitTweet ==
    /\ InitCommon
    /\ TEST_MODE = FALSE
    /\ num_jobs = 1
    /\ call \in [op : {"tweet"}, matching_grafs : SeqsUpTo(Grafs, MaxGrafs) \ {<<>>},
                 done : {FALSE}, uploaded : {{}}, media_ids : {<<>>}]

\* Article.tweet up to update_status: the media_ids it passes
Media ==
    /\ call.op = "tweet"
    /\ ~call.done
    /\ \E uploaded \in SUBSET (1..Len(first_four(imgs(call.matching_grafs)))) :
         call' = [call EXCEPT !.done = TRUE, !.uploaded = uploaded,
                              !.media_ids = media_ids(call.matching_grafs, uploaded)]
    /\ UNCHANGED pipeline

SpecTweet == InitTweet /\ [][Media]_vars

\* ------------------------------- the chunking of the feeds, on its own
OutletNames == {1, 2, 3}   \* outlets, numbered in their sort order

\* the lists of feeds rssfeeds.json may hold: feed i has the url i
FeedLists ==
    UNION {[1..n -> OutletNames] : n \in 0..MaxFeeds}

FeedsOfList(os) == [i \in 1..Len(os) |-> [outlet |-> os[i], url |-> i]]

\* the orders list(set(...)) may yield the elements of S in
SetOrders(S) ==
    {f \in [1..Cardinality(S) -> S] : \A i, j \in 1..Cardinality(S) : f[i] = f[j] => i = j}

InitChunk ==
    /\ InitCommon
    /\ TEST_MODE = FALSE
    /\ num_jobs = 1
    /\ call \in [op : {"chunk"}, rss_feeds : {FeedsOfList(os) : os \in FeedLists},
                 jobs : 1..MaxJobs, runs : {<<>>}]

\* one launch of the jobs main(0, jobs) .. main(jobs - 1, jobs) on the
\* feeds, up to the loop over rss_feeds: what each job keeps; a second
\* launch follows the first
Chunk ==
    /\ call.op = "chunk"
    /\ Len(call.runs) < 2
    /\ \E outlets \in SetOrders({call.rss_feeds[i].outlet : i \in 1..Len(call.rss_feeds)}) :
         call' = [call EXCEPT !.runs = Append(@,
                     [outlets |-> outlets,
                      rss_feeds |-> [j \in 1..call.jobs |->
                          select_feeds(call.rss_feeds, outlets, j - 1, call.jobs)]])]
    /\ UNCHANGED pipeline

SpecChunk == InitChunk /\ [][Chunk]_vars

\* ------------------------------------------------------------- the claims
Recorded(url) == \E i \in DOMAIN db : db[i].url = url
RowsOf(url) == {i \in DOMAIN db : db[i].url = url}
StatusesOf(url) == {i \in DOMAIN twitter : twitter[i].url = url}
InArticle == {"check_for_matches", "same_title", "tweet", "insert"}
InFeed == InArticle \cup {"loop"}

Requested(w) ==
    (IF pc[w] \in InFeed /\ Feed(w).redirects
     THEN {deduped[w][i].url : i \in 1..Len(deduped[w])} ELSE {})
    \cup log[w].get

\* C2 as stated: the table is looked up for an article's URL before any
\* network request is made for that article.
C2_SeenCheckedBeforeAnyRequest == \A w \in Workers : Requested(w) \subseteq log[w].seen

\* C2, amended: the table is looked up for an article's URL before the
\* article is fetched, evaluated or notified, and an article in any of those
\* steps has no row in the table; only the HEAD request that canonicalizes
\* the URL of a redirecting feed precedes the lookup.
C2_SkipOnSeen ==
    \A w \in Workers :
        /\ log[w].get \subseteq log[w].seen
        /\ pc[w] \in InArticle =>
              /\ Current(w).url \in log[w].seen
              /\ ~Recorded(Current(w).url)

\* an article of a redirecting feed is skipped because its URL has a row
C2_Witness ==
    /\ pc[1] = "loop"
    /\ Feed(1).redirects
    /\ \E u \in log[1].seen \ log[1].get : Recorded(u)

\* C3: no two rows of the articles table share a URL; an insert for a URL that
\* has a row is rejected and leaves exactly one row for it.
C3_UniqueUrl ==
    /\ \A i, j \in DOMAIN db : db[i].url = db[j].url => i = j
    /\ \A w \in Workers : \A u \in log[w].rejected : Cardinality(RowsOf(u)) = 1

\* an insert has been rejected
C3_Witness == \E w \in Workers : log[w].rejected # {}

\* C4 as stated: an article whose check_for_matches raised gets no row in
\* this pass.
C4_FailedNotRecorded == \A w \in Workers : \A u \in log[w].failed : ~Recorded(u)

\* C5 as stated: no failure in the processing of one article ends the run.
C5_NoAbort == \A w \in Workers : pc[w] # "crashed"

\* the reply target C6 names: the id of the most recently recorded row of the
\* title, recorded within two days of now, whose id is not null; None without one
ClaimedParent(title) ==
    LET S == {i \in DOMAIN db : /\ db[i].title = title
                                /\ now - db[i].recorded_at <= WindowDays * TicksPerDay
                                /\ db[i].tweet_id # None}
    IN  IF S = {} THEN None
        ELSE db[CHOOSE i \in S : \A j \in S : j <= i].tweet_id

\* C6 as stated: a matching article is notified, as a reply to the id of the
\* most recent row of its title within two days whose id is not null, and
\* standalone exactly when there is no such row.
C6_ThreadingWindow ==
    \A w \in Workers :
        /\ pc[w] = "tweet" => in_reply_to[w] = ClaimedParent(Current(w).title)
        /\ pc[w] = "crashed" => exc[w] # "TypeError"

\* C7 as stated: a null id in the selected row raises no error (the article
\* is notified standalone).
C7_NullParentNoError == \A w \in Workers : exc[w] # "TypeError"

Applied(n) == call.op = "canonicalize_url" /\ Len(call.out) >= n
\* the URL canonicalize_url works on once redirects are resolved
Working == IF call.redirects THEN ResolvedUrl(call.heads[1].res) ELSE call.url
Cruft == {"?", "#"}

\* C8 as stated: canonicalize(canonicalize(u)) = canonicalize(u) for any URL
\* and any fixed flags.
C8_Idempotent == Applied(2) => call.out[2] = call.out[1]

\* C8, amended: canonicalize(canonicalize(u)) = canonicalize(u) for any URL
\* and either value of is_delicate when uses_redirect is false; with
\* uses_redirect the second canonicalization resolves the canonical URL
\* anew, and the network decides where that leads.
C8_IdempotentWithoutRedirect ==
    (Applied(2) /\ ~call.redirects) => call.out[2] = call.out[1]

\* a URL with cruft, canonicalized twice without redirects
C8_Witness ==
    /\ Applied(2)
    /\ ~call.redirects /\ ~call.delicate
    /\ call.out[1] # call.url
    /\ call.out[2] = call.out[1]

\* C9: without is_delicate the canonical URL is the working URL cut before
\* its first '?' or '#', and holds neither; with is_delicate it is the
\* working URL.
C9_CruftRemoval ==
    Applied(1) =>
        LET c == call.out[1]
        IN  IF call.delicate THEN c = Working
            ELSE /\ Range(c) \cap Cruft = {}
                 /\ Len(c) <= Len(Working)
                 /\ c = SubSeq(Working, 1, Len(c))
                 /\ Len(c) < Len(Working) => Working[Len(c) + 1] \in Cruft

\* a fragment that holds a '?' is cut at the '#' before it
C9_Witness ==
    /\ Applied(1)
    /\ ~call.delicate
    /\ Working = <<"a", "#", "?">>
    /\ call.out[1] = <<"a">>

Evaluated == call.op = "check_for_matches" /\ call.done

\* a block word occurs in the text, whatever the case of either
HasBlockWord(text) ==
    \E i \in 1..Len(blocklist_words) :
        LET word == blocklist_words[i]
        IN  \E k \in 0..(Len(text) - Len(word)) :
                \A j \in 1..Len(word) : LowerChar(text[k + j]) = LowerChar(word[j])

\* a matchword occurs in the text, whatever the case of either
HasMatchWord(text) ==
    \E i \in 1..Len(matchwords) :
        LET word == matchwords[i]
        IN  \E k \in 0..(Len(text) - Len(word)) :
                \A j \in 1..Len(word) : LowerChar(text[k + j]) = LowerChar(word[j])

\* C10: when a block word occurs in the plaintext, or the block-list module
\* blocks the article, there are no matching paragraphs, whatever matchwords
\* the paragraphs hold.
C10_BlockListPrecedence ==
    (Evaluated /\ (HasBlockWord(call.plaintext) \/ call.blocked))
        => call.matching_grafs = <<>>

\* a text with a block word and a matchword, not blocked by the module
C10_Witness ==
    /\ Evaluated
    /\ ~call.blocked
    /\ HasBlockWord(call.plaintext)
    /\ HasMatchWord(call.plaintext)
    /\ ~IsSubstr(ua, call.plaintext)
    /\ call.matching_grafs = <<>>

\* the text is s from position k + 1 on
OccursAt(s, text, k) ==
    /\ k + Len(s) <= Len(text)
    /\ \A j \in 1..Len(s) : text[k + j] = s[j]

\* a case-sensitive surface form of a root occurs in the text, in its exact case
HasSurfaceForm(text) ==
    \E i \in 1..Len(matchwords_case_sensitive) :
        \E k \in 0..Len(text) : OccursAt(matchwords_case_sensitive[i], text, k)

\* the positions that bound the paragraphs of a text: before it, its
\* newlines, after it
Cuts(text) == {0, Len(text) + 1} \cup {i \in 1..Len(text) : text[i] = "\n"}

\* the newline-delimited paragraphs of a text, in order
Paragraphs(text) ==
    LET cuts == SortedSeq(Cuts(text))
    IN  [k \in 1..(Len(cuts) - 1) |-> SubSeq(text, cuts[k] + 1, cuts[k + 1] - 1)]

\* evaluation suppresses the article: the user agent or a block word occurs
\* in the plaintext, or the block-list module blocks it
Suppressed ==
    \/ \E k \in 0..Len(call.plaintext) : OccursAt(ua, call.plaintext, k)
    \/ HasBlockWord(call.plaintext)
    \/ call.blocked

ClaimMatch(graf) == HasMatchWord(graf) \/ HasSurfaceForm(graf)

\* C11: when the article is not suppressed, the matching paragraphs are the
\* newline-delimited paragraphs of the plaintext that hold a case-insensitive
\* word in any case or a case-sensitive surface form in its exact case, in
\* their order and unmodified; the other paragraphs are absent.
C11_ParagraphMatching ==
    (Evaluated /\ ~Suppressed)
        => call.matching_grafs = SelectSeq(Paragraphs(call.plaintext), ClaimMatch)

\* a text of two paragraphs, of which only the second matches, in lower case
C11_Witness ==
    /\ Evaluated
    /\ ~Suppressed
    /\ call.plaintext = <<".", "\n", "k">>
    /\ call.matching_grafs = << <<"k">> >>

Generated == call.op = "generate_matchwords" /\ call.done
PairwiseDistinct(seq) == \A i, j \in 1..Len(seq) : seq[i] = seq[j] => i = j

\* the forms C12 names: each prefix, then a variant of the root, then each suffix
Variants(word) ==
    {word, word \o <<"e">>, word \o <<"e", "n">>, word \o <<"e", "s">>, word \o <<"s">>}
ClaimedPrefixes == {"(", "[", "\"", "'", " "}
ClaimedSuffixes == {")", "]", ";", ",", ".", ":", "-", "ndash", "\"", "'", " "}
ClaimedForms(word) ==
    {<<p>> \o v \o <<x>> : p \in ClaimedPrefixes, v \in Variants(word), x \in ClaimedSuffixes}

\* C12 as stated: a root word compiles to exactly 250 pairwise-distinct
\* surface forms.
C12_Count250 == Generated => (Len(call.res) = 250 /\ PairwiseDistinct(call.res))

\* C12, amended: a root word compiles to exactly 275 pairwise-distinct surface
\* forms, every prefix + variant + suffix combination of the 5 variants, the
\* 5 prefixes and the 11 suffixes (the en dash among them).
C12_Count275 ==
    Generated =>
        /\ Len(call.res) = 275
        /\ PairwiseDistinct(call.res)
        /\ Range(call.res) = ClaimedForms(call.word)

\* a root whose own letters are those of the endings
C12_Witness ==
    /\ Generated
    /\ call.word = <<"e", "s">>
    /\ Len(call.res) = 275
    /\ <<"(", "e", "s", "e", "s", "ndash">> \in Range(call.res)

\* the id the notification of a URL returned: the placeholder with
\* TEST_MODE, else the id of the status posted for it
NotifiedId(url) ==
    IF TEST_MODE THEN TEST_ID
    ELSE twitter[CHOOSE i \in DOMAIN twitter : twitter[i].url = url].id

\* C13 as stated: a row written for an article whose notification returned an
\* id has tweeted true and that id as its tweet_id, with TEST_MODE too; a row
\* written for an article that was not notified has tweeted false and a null
\* tweet_id.
C13_RecordReflectsOutcome ==
    \A i \in DOMAIN db :
        IF returned[db[i].url] > 0
        THEN db[i].tweeted /\ db[i].tweet_id = NotifiedId(db[i].url)
        ELSE ~db[i].tweeted /\ db[i].tweet_id = None

\* C14: no step of the pipeline changes or removes a row of the articles
\* table; an insert for a URL that has a row leaves the table as it is, and
\* the run goes on to the next article of the feed.
C14_AppendOnly ==
    [][/\ Len(db') >= Len(db)
       /\ SubSeq(db', 1, Len(db)) = db
       /\ \A w \in Workers :
             (pc[w] = "insert" /\ pc'[w] # "insert" /\ Recorded(Current(w).url))
                 => /\ db' = db
                    /\ pc'[w] = "loop"
                    /\ counter'[w] = counter[w] + 1
                    /\ exc'[w] = "none"]_vars

\* a worker is past an insert that was rejected: the row of the other
\* worker stands, and the loop over the feed's articles goes on
C14_Witness ==
    \E w \in Workers :
        /\ pc[w] = "loop"
        /\ counter[w] > 1
        /\ deduped[w][counter[w] - 1].url \in log[w].rejected
        /\ \E i \in DOMAIN db : /\ db[i].url = deduped[w][counter[w] - 1].url
                                 /\ db[i].outlet # deduped[w][counter[w] - 1].outlet

\* the URLs of the articles of the feed in hand that the loop is past
Passed(w) == {deduped[w][i].url : i \in 1..(counter[w] - 1)}

\* C15: every article the loop over a feed is past has a row for its URL,
\* matched or not, so that when the feed is left, and when the run returns,
\* every article of the feed has one; and an article whose URL has a row is
\* neither fetched nor notified, so that a later run over the same articles
\* fetches and notifies nothing.
C15_ProcessedIsRecorded ==
    [][\A w \in Workers :
         /\ pc'[w] \in InFeed => \A u \in Passed(w)' : Recorded(u)'
         /\ (pc[w] = "loop" /\ pc'[w] \in {"parse", "done"})
               => \A i \in DOMAIN deduped[w] : Recorded(deduped[w][i].url)
         /\ \A u \in log'[w].get \ log[w].get : ~Recorded(u)
         /\ \A u \in Urls : invoked'[u] # invoked[u] => ~Recorded(u)]_vars

\* a later run is at the end of a feed of two articles, both recorded by an
\* earlier run, one of them without a match: nothing was fetched
C15_Witness ==
    /\ pc[1] = "loop"
    /\ counter[1] > Len(deduped[1])
    /\ Len(deduped[1]) = 2
    /\ log[1].get = {}
    /\ \A k \in DOMAIN deduped[1] :
          \E i \in DOMAIN db : db[i].url = deduped[1][k].url /\ db[i].recorded_at < now
    /\ \E i \in DOMAIN db : db[i].tweet_id = None /\ invoked[db[i].url] = 0

\* C16 as stated: with two workers on one articles table, whatever the
\* interleaving of their lookups, notifications and inserts, no URL is
\* notified twice: no two statuses are posted for one URL, and Article.tweet
\* does not return twice for it.
C16_NoDuplicateNotification ==
    /\ \A i, j \in DOMAIN twitter : twitter[i].url = twitter[j].url => i = j
    /\ \A u \in Urls : returned[u] < 2

\* C17 as stated: when a run is terminated at any point, between the
\* notification and the insert too, and the pipeline is run again, no URL is
\* notified a second time.
C17_TerminationSafe == killed > 0 => \A u \in Urls : returned[u] <= 1

Notified == call.op = "tweet" /\ call.done
\* the paragraphs whose images are sent: the first four at most
Pictured == 1..(IF Len(call.matching_grafs) < 4 THEN Len(call.matching_grafs) ELSE 4)
AllUploaded == call.uploaded = Pictured

\* C18 as stated: the notification carries one image for each of the first
\* min(4, n) of the n matching paragraphs, in order, and the images are
\* square exactly when n = 1.
C18_SquareWhenSingle ==
    (Notified /\ AllUploaded) =>
        /\ Len(call.media_ids) = Cardinality(Pictured)
        /\ \A i \in DOMAIN call.media_ids :
              /\ call.media_ids[i].text = lstrip(call.matching_grafs[i])
              /\ call.media_ids[i].square <=> (Len(call.matching_grafs) = 1)

\* C18, amended: the notification carries one image for each of the first
\* min(4, n) of the n matching paragraphs whose upload did not fail, in
\* order, and never more than 4; the images are landscape (not square) when
\* n = 1 and square when n > 1.
C18_SquareWhenSeveral ==
    Notified =>
        /\ Len(call.media_ids) = Cardinality(call.uploaded)
        /\ Len(call.media_ids) <= 4
        /\ call.uploaded \subseteq Pictured
        /\ \A i \in DOMAIN call.media_ids :
              /\ call.media_ids[i].square <=> (Len(call.matching_grafs) > 1)
              /\ \E k \in call.uploaded :
                    /\ Cardinality({j \in call.uploaded : j <= k}) = i
                    /\ call.media_ids[i].text = lstrip(call.matching_grafs[k])
        /\ AllUploaded =>
              \A i \in Pictured : call.media_ids[i].text = lstrip(call.matching_grafs[i])

\* five matching paragraphs, all four uploads made: four square images
C18_Witness ==
    /\ Notified
    /\ Len(call.matching_grafs) = 5
    /\ AllUploaded
    /\ Len(call.media_ids) = 4
    /\ \A i \in 1..4 : call.media_ids[i].square

\* the user agent occurs in the text
HasUa(text) == \E k \in 0..Len(text) : OccursAt(ua, text, k)

\* C19: an article whose plaintext holds the user agent leaves evaluation
\* with no matching paragraphs, whatever matchwords the plaintext holds, and
\* goes to the insert without a notification: Article.tweet is not called
\* for it.
C19_UaSuppression ==
    [][\A w \in Workers :
         HasUa(article'[w].plaintext) =>
            /\ article'[w].matching_grafs = <<>>
            /\ pc'[w] \notin {"same_title", "tweet"}
            /\ just_tweeted_id'[w] = None
            /\ invoked' = invoked
            /\ twitter' = twitter]_vars

\* an article whose plaintext holds a matchword and the user agent is about
\* to be recorded, not notified
C19_Witness ==
    /\ pc[1] = "insert"
    /\ HasUa(article[1].plaintext)
    /\ HasMatchWord(article[1].plaintext)
    /\ ~HasBlockWord(article[1].plaintext)
    /\ invoked[Current(1).url] = 0

\* the configuration C20 calls fatal: no matchwords at all, or no feeds
\* (a feeds file that is not JSON, or an empty list of feeds)
FatalConfiguration ==
    \/ call.lists.matchwords = <<>> /\ call.lists.matchwords_case_sensitive_raw = <<>>
    \/ ~call.rssfeedsfile.json
    \/ call.rssfeedsfile.rss_feeds = <<>>

\* C20 as stated: on a fatal configuration main() ends with an error and a
\* non-zero status (sys.exit with a message, or an exception), before any
\* feed is retrieved, any article fetched or notified, any row written.
C20_FatalConfigExits ==
    (call.op = "main" /\ FatalConfiguration /\ pc[1] # "idle") =>
        /\ pc[1] \in {"exited", "crashed"}
        /\ db = <<>> /\ twitter = <<>>
        /\ log[1] = NoLog /\ deduped[1] = <<>>
        /\ \A u \in Urls : invoked[u] = 0

\* the jobs of run r that keep feed f
Keepers(r, f) == {j \in 1..call.jobs : f \in Range(call.runs[r].rss_feeds[j])}
\* the outlets of the feeds job j keeps in run r
OutletsKept(r, j) ==
    {call.runs[r].rss_feeds[j][i].outlet : i \in 1..Len(call.runs[r].rss_feeds[j])}

\* C21: for any list of feeds and any num_jobs >= 1, every feed is kept by
\* exactly one job and the jobs keep nothing else, each job keeps its feeds
\* once and in the order of the list, the feeds of one outlet are kept by
\* one job, the numbers of outlets of two jobs differ by at most one, and
\* a second run keeps the same feeds for every job, whatever order the set
\* of outlets comes in.
C21_ShardingPartition ==
    call.op = "chunk" =>
        \A r \in DOMAIN call.runs :
            /\ \A f \in Range(call.rss_feeds) : Cardinality(Keepers(r, f)) = 1
            /\ \A j \in 1..call.jobs :
                  LET kept == call.runs[r].rss_feeds[j]
                  IN  /\ Range(kept) \subseteq Range(call.rss_feeds)
                      /\ \A i, k \in DOMAIN kept : i < k => kept[i].url < kept[k].url
            /\ \A f, g \in Range(call.rss_feeds) :
                  f.outlet = g.outlet => Keepers(r, f) = Keepers(r, g)
            /\ \A j, k \in 1..call.jobs :
                  Cardinality(OutletsKept(r, j)) <= Cardinality(OutletsKept(r, k)) + 1
            /\ call.runs[r].rss_feeds = call.runs[1].rss_feeds

\* three outlets over two jobs, run twice with the set of outlets in
\* different orders: two outlets for the first job, one for the second
C21_Witness ==
    /\ call.op = "chunk"
    /\ call.jobs = 2
    /\ Len(call.runs) = 2
    /\ call.runs[1].outlets # call.runs[2].outlets
    /\ call.runs[2].outlets # sorted(call.runs[2].outlets)
    /\ Cardinality(OutletsKept(2, 1)) = 2
    /\ Cardinality(OutletsKept(2, 2)) = 1

====
